---- MODULE Spec2Model ----
(***************************************************************************)
(* A model of flightctl-mcp's FlightControlClient (resource_queries.py):   *)
(* the OIDC token cache behind _get_access_token, called by concurrent     *)
(* threads, the paginated resource query _query_resources, and the console *)
(* bridge run_console_command with its login and execute processes, run by *)
(* one thread or by several; its Configuration and constructor; and        *)
(* main.py's run_command_on_device tool with get_client and get_cli        *)
(* (cli.py's FlightctlCLI.download).                                       *)
(***************************************************************************)
EXTENDS Integers, Sequences, FiniteSets, TLC

\* ------------------------------------------------------------------ bounds
\* Threads that call _get_access_token on the one client.
NumCallers == 2
\* POSTs the token endpoint answers in one behaviour.
MaxPosts == 2
\* The clock (seconds) stops advancing here.
MaxTime == 60

\* Pages of the backend's collection (the cursor chain's length).
MaxPages == 2
\* Items on one page.
MaxPageItems == 2
\* The largest small `limit` a query is given (besides the tools' default).
MaxLimit == 3
\* Characters the execute process writes to its standard output.
MaxOutLen == 3

\* ------------------------------------------------------- program constants
\* `now < self._token_expiry - 60`
Margin == 60
\* `data.get("expires_in", 3600)`
DefaultExpiresIn == 3600

\* main.py's tools: `limit: int = 1000`
DefaultLimit == 1000

Callers == 1..NumCallers
\* What time.time() may advance by between two steps.
TickSteps == {30}
\* The integer expires_in values the token endpoint answers with.
ExpiresInValues == {30, 120}

\* ------------------------------------------------------------ token values
\* self._access_token = None
None == [k |-> "none", id |-> 0]
\* The empty string "", falsy like None.
EmptyStr == [k |-> "empty", id |-> 0]
\* The non-empty access token the n-th POST answers with.
Tok(n) == [k |-> "str", id |-> n]
\* Python truthiness of an Optional[str].
Truthy(t) == t.k = "str"

\* ------------------------------------------------ the token endpoint's answers
\* kind: "network"   requests.post raises (connection error, timeout)
\*       "http"      non-2xx, raise_for_status raises HTTPError
\*       "badjson"   resp.json() raises
\*       "notobject" the body is JSON but no object (data["access_token"] raises TypeError)
\*       "nokey"     a JSON object without "access_token"
\*       "ok"        a JSON object with "access_token"
\* tok (kind "ok"):  "str" a non-empty string, "empty" the string "", "null" JSON null
\* exp (kind "ok"):  "absent" no "expires_in", "int" an integer n, "bad" a value
\*                   that cannot be added to a float (a string, null)
\* The falsy tokens and the unusable expires_in each come with the other field
\* in its plain form.
FailureKinds == {"network", "http", "badjson", "notobject", "nokey"}
Responses ==
    [kind : FailureKinds, tok : {"none"}, exp : {"none"}, n : {0}]
    \cup [kind : {"ok"}, tok : {"str", "empty", "null"}, exp : {"absent"}, n : {0}]
    \cup [kind : {"ok"}, tok : {"str"}, exp : {"bad"}, n : {0}]
    \cup [kind : {"ok"}, tok : {"str"}, exp : {"int"}, n : ExpiresInValues]

\* No POST answered in this call.
NoResponse == [kind |-> "none", tok |-> "none", exp |-> "none", n |-> 0]

VARIABLES
    clock,          \* time.time()
    access_token,   \* self._access_token
    token_expiry,   \* self._token_expiry
    token_lock,     \* self._token_lock: 0 free, else the caller holding it
    pc,             \* each caller's position in _get_access_token
    now,            \* each caller's local `now`
    resp,           \* each caller's local `resp`: the answer to its POST
    result,         \* what each caller's call returned or raised
    posted,         \* POSTs each caller's current call has issued
    arrived,        \* the caller whose POST was in flight when this one called (0: none)
    awaited,        \* the outcome of the refresh this caller arrived during
    posts,          \* POSTs issued to the token endpoint (the mock's call_count)
    last_failed,    \* the latest _get_access_token call that refreshed raised
    pages,          \* the backend's collection: per page its size and where its cursor is
    q_pc,           \* the query's position in _query_resources
    limit,          \* the query's `limit` argument
    items,          \* the accumulator `items`
    continue_token, \* `continue_token` (0: None)
    page_count,     \* `page_count`: GET requests issued
    headers,        \* the bearer token of the query's Authorization header
    last_page,      \* the page the last GET answered with (0: none yet)
    params,         \* the query parameters of the last GET
    label_selector, \* the query's label_selector argument
    field_selector, \* the query's field_selector argument
    log,            \* the GETs of the query in the order they were made
    token_calls,    \* the _get_access_token calls the query has made
    got,            \* how the last GET was answered
    q_resp,         \* the answer to the POST of the query's _get_access_token call
    q_result,       \* what the query returned or raised
    c_pc,           \* the console command's position in run_console_command
    on_path,        \* shutil.which("flightctl") finds an executable
    path_ok,        \* `cli_path` names an executable subprocess.run can start
    device_name,    \* the `device_name` argument: its kind of text
    command,        \* the `command` argument: its kind of text
    c_token,        \* the local `access_token`
    c_resp,         \* the answer to the POST of the command's _get_access_token call
    steps,          \* the I/O of the invocation, in order: "token", "login", "exec"
    login_out,      \* how the login process ended ("none": not started)
    exec_out,       \* how the execute process ended ("none": not started)
    insecure_skip_verify, \* self.config.insecure_skip_verify
    login_argv,     \* the argument list the login process was started with
    exec_argv,      \* the argument list the execute process was started with
    stdout,         \* the captured standard output of the execute process
    c_result,       \* what run_console_command returned or raised
    the_file,       \* ~/.config/flightctl/client.yaml: whether it exists, and its keys
    environ,        \* os.environ: the six variables _load_config reads
    cf_pc,          \* how far the process is with its configuration and client
    config,         \* the Configuration object's attributes
    client,         \* the outcome of FlightControlClient(config)
    ssl_verify,     \* what config.get_ssl_verify() returned
    k_pc,           \* per concurrent invocation: its position in run_console_command
    k_token,        \* per concurrent invocation: its local `access_token`
    session,        \* the CLI's stored login: the invocation whose login set it (0: none)
    k_ran,          \* per concurrent invocation: the login its execute step ran under
    t_pc,           \* the run_command_on_device call's position
    t_device,       \* its `device_name` argument: the kind of text
    t_command,      \* its `command` argument: the kind of text
    g_client,       \* main.py's global `_client` is set
    g_cli,          \* main.py's global `_cli`: set or not, and how its download() ended
    installed,      \* shutil.which("flightctl") finds an executable
    t_log,          \* the processes the call's get_cli started, in order: "curl", "tar"
    got_cli,        \* get_cli returned an instance to this call
    t_result        \* what the tool call returned or raised

tokenVars == <<clock, access_token, token_expiry, token_lock, pc, now, resp,
               result, posted, arrived, awaited, posts, last_failed>>

queryVars == <<pages, q_pc, limit, items, continue_token, page_count, headers,
               last_page, params, got, q_resp, q_result,
               label_selector, field_selector, log, token_calls>>

consoleVars == <<c_pc, on_path, path_ok, device_name, command, c_token, c_resp,
                 steps, login_out, exec_out, insecure_skip_verify, login_argv,
                 exec_argv, stdout, c_result>>

configVars == <<the_file, environ, cf_pc, config, client, ssl_verify>>

sessionVars == <<k_pc, k_token, session, k_ran>>

toolVars == <<t_pc, t_device, t_command, g_client, g_cli, installed, t_log, got_cli,
              t_result>>

vars == <<tokenVars, queryVars, consoleVars, configVars, sessionVars, toolVars>>

\* --------------------------------------------------------- _get_access_token
NoResult == [exc |-> "pending", tok |-> None]
Returned(t) == [exc |-> "none", tok |-> t]
Raised(e) == [exc |-> e, tok |-> None]

\* The comparison turned around: a token counts as valid once it is about to expire.
CacheValid_Reversed(tok, expiry, t) == Truthy(tok) /\ t > expiry - Margin

\* `if self._access_token and now < self._token_expiry - 60`
CacheValid(tok, expiry, t) == Truthy(tok) /\ t < expiry - Margin

\* The value data["access_token"] of an "ok" answer to POST number n.
ResponseToken(r, n) ==
    CASE r.tok = "str" -> Tok(n)
      [] r.tok = "empty" -> EmptyStr
      [] OTHER -> None

\* data["expires_in"] read without the default: an absent field counts as 0.
ExpiresIn_NoDefault(r) == r.n

\* data.get("expires_in", 3600)
ExpiresIn(r) == IF r.exp = "absent" THEN DefaultExpiresIn ELSE r.n

\* The exception the try block raises on answer r ("" when it returns).
TryRaises(r) ==
    CASE r.kind = "network" -> "RequestException"
      [] r.kind = "http" -> "HTTPError"
      [] r.kind = "badjson" -> "JSONDecodeError"
      [] r.kind = "notobject" -> "TypeError"
      [] r.kind = "nokey" -> "KeyError"
      [] r.kind = "ok" /\ r.exp = "bad" -> "TypeError"
      [] OTHER -> ""

\* Without the final `except Exception`: what is neither a RequestException nor
\* a KeyError escapes as it was raised.
ExceptClause_NoCatchAll(e) ==
    CASE e \in {"RequestException", "HTTPError", "JSONDecodeError"} ->
            Raised("AuthenticationError")
      [] e = "KeyError" -> Raised("AuthenticationError")
      [] OTHER -> Raised(e)

\* The except clauses of _get_access_token.
ExceptClause(e) ==
    CASE e \in {"RequestException", "HTTPError", "JSONDecodeError"} ->
            Raised("AuthenticationError")
      [] e = "KeyError" -> Raised("AuthenticationError")
      [] OTHER -> Raised("AuthenticationError")

\* Line 370 is reached: self._access_token = data["access_token"].
AssignsToken(r) == r.kind = "ok"
\* Line 371 completes: self._token_expiry = now + data.get("expires_in", 3600).
AssignsExpiry(r) == r.kind = "ok" /\ r.exp # "bad"

\* The refreshed token is returned but never stored.
TokenAfter_NotCached(r, n, tok) == tok

TokenAfter(r, n, tok) == IF AssignsToken(r) THEN ResponseToken(r, n) ELSE tok
ExpiryAfter(r, t, expiry) == IF AssignsExpiry(r) THEN t + ExpiresIn(r) ELSE expiry

\* What the call returns or raises once the POST is answered with r.
RefreshResult(r, n) ==
    IF TryRaises(r) = "" THEN Returned(ResponseToken(r, n)) ELSE ExceptClause(TryRaises(r))

\* A caller that did not arrive during a refresh, or whose refresh is not answered yet.
NotAwaited == [set |-> FALSE, ok |-> FALSE, tok |-> None, expiry |-> 0]

\* The callers whose POST is in flight, and one of them (0 when none is).
InFlight == {c \in Callers : pc[c] = "posting"}
InFlightCaller == IF InFlight = {} THEN 0 ELSE CHOOSE c \in InFlight : TRUE

\* time.time() advances.
Tick ==
    /\ \E d \in TickSteps : clock + d <= MaxTime /\ clock' = clock + d
    /\ UNCHANGED <<access_token, token_expiry, token_lock, pc, now, resp, result,
                   posted, arrived, awaited, posts, last_failed, queryVars, consoleVars, configVars, sessionVars, toolVars>>

\* A thread calls _get_access_token and reaches `with self._token_lock`. The
\* threads are interchangeable: the call is made by the first idle one. Calls
\* stop once each could need a POST beyond MaxPosts; a call made while the
\* cached token stays valid for all the clock's time and no POST is in flight
\* needs none.
Call(c) ==
    /\ pc[c] = "idle"
    /\ \A d \in Callers : d < c => pc[d] # "idle"
    /\ \/ posts + Cardinality({d \in Callers : pc[d] \in {"wait", "check"}}) < MaxPosts
       \/ CacheValid(access_token, token_expiry, MaxTime) /\ InFlight = {}
    /\ pc' = [pc EXCEPT ![c] = "wait"]
    /\ arrived' = [arrived EXCEPT ![c] = InFlightCaller]
    /\ UNCHANGED <<clock, access_token, token_expiry, token_lock, now, resp,
                   result, posted, awaited, posts, last_failed, queryVars, consoleVars, configVars, sessionVars, toolVars>>

\* A lock that excludes nobody.
LockFree_Always == TRUE

\* threading.Lock.acquire: only a free lock is taken.
LockFree == token_lock = 0

\* `with self._token_lock:` entered.
Acquire(c) ==
    /\ pc[c] = "wait"
    /\ LockFree
    /\ token_lock' = c
    /\ pc' = [pc EXCEPT ![c] = "check"]
    /\ UNCHANGED <<clock, access_token, token_expiry, now, resp, result, posted,
                   arrived, awaited, posts, last_failed, queryVars, consoleVars, configVars, sessionVars, toolVars>>

\* now = time.time(); the cached token is valid: return it (the lock is released).
CachedReturn(c) ==
    /\ pc[c] = "check"
    /\ CacheValid(access_token, token_expiry, clock)
    /\ now' = [now EXCEPT ![c] = clock]
    /\ result' = [result EXCEPT ![c] = Returned(access_token)]
    /\ token_lock' = 0
    /\ pc' = [pc EXCEPT ![c] = "done"]
    /\ UNCHANGED <<clock, access_token, token_expiry, resp, posted, arrived,
                   awaited, posts, last_failed, queryVars, consoleVars, configVars, sessionVars, toolVars>>

\* now = time.time(); no valid token: requests.post is issued.
BeginRefresh(c) ==
    /\ pc[c] = "check"
    /\ ~CacheValid(access_token, token_expiry, clock)
    /\ now' = [now EXCEPT ![c] = clock]
    /\ posted' = [posted EXCEPT ![c] = posted[c] + 1]
    /\ posts' = posts + 1
    /\ pc' = [pc EXCEPT ![c] = "posting"]
    /\ UNCHANGED <<clock, access_token, token_expiry, token_lock, resp, result,
                   arrived, awaited, last_failed, queryVars, consoleVars, configVars, sessionVars, toolVars>>

\* The POST is answered with r: lines 368-386, then the lock is released.
EndRefresh(c, r) ==
    /\ pc[c] = "posting"
    /\ resp' = [resp EXCEPT ![c] = r]
    /\ access_token' = TokenAfter(r, posts, access_token)
    /\ token_expiry' = ExpiryAfter(r, now[c], token_expiry)
    /\ result' = [result EXCEPT ![c] = RefreshResult(r, posts)]
    /\ awaited' = [d \in Callers |->
                      IF pc[d] # "idle" /\ arrived[d] = c /\ ~awaited[d].set
                      THEN [set |-> TRUE, ok |-> TryRaises(r) = "",
                            tok |-> RefreshResult(r, posts).tok,
                            expiry |-> now[c] + ExpiresIn(r)]
                      ELSE awaited[d]]
    /\ last_failed' = (TryRaises(r) # "")
    /\ token_lock' = 0
    /\ pc' = [pc EXCEPT ![c] = "done"]
    /\ UNCHANGED <<clock, now, posted, arrived, posts, queryVars, consoleVars, configVars, sessionVars, toolVars>>

\* The caller has consumed the outcome; the thread may call again.
Finish(c) ==
    /\ pc[c] = "done"
    /\ pc' = [pc EXCEPT ![c] = "idle"]
    /\ now' = [now EXCEPT ![c] = 0]
    /\ resp' = [resp EXCEPT ![c] = NoResponse]
    /\ result' = [result EXCEPT ![c] = NoResult]
    /\ posted' = [posted EXCEPT ![c] = 0]
    /\ arrived' = [arrived EXCEPT ![c] = 0]
    /\ awaited' = [awaited EXCEPT ![c] = NotAwaited]
    /\ UNCHANGED <<clock, access_token, token_expiry, token_lock, posts, last_failed,
                   queryVars, consoleVars, configVars, sessionVars, toolVars>>

\* ------------------------------------------------------------ the backend
\* A page is [n |-> its number of items, at |-> where its continuation cursor is]:
\* "top" a top-level `continue` field, "meta" `metadata.continue`, "none" no cursor.
\* The cursor of page k names page k + 1; only the last page carries none.
CursorPlaces == {"top", "meta"}
PageSeqs ==
    UNION {
        {p \in [1..len -> [n : 0..MaxPageItems, at : CursorPlaces \cup {"none"}]] :
            \A k \in 1..len : (p[k].at = "none") <=> (k = len)}
        : len \in 1..MaxPages }

\* The items of page k, in server order; adjacent pages share an item.
PageItems(p, k) == [i \in 1..p[k].n |-> k + i - 1]

\* The page a GET with `continue` = t is answered with (no parameter: the first).
PageFor(t) == IF t = 0 THEN 1 ELSE t

\* The JSON body of page k.
Body(p, k) ==
    [items |-> PageItems(p, k),
     continue |-> IF p[k].at = "top" THEN k + 1 ELSE 0,
     metadata_continue |-> IF p[k].at = "meta" THEN k + 1 ELSE 0]

\* --------------------------------------------------------- _query_resources
NoLimit == [given |-> FALSE, n |-> 0]
LimitInputs == {NoLimit} \cup [given : {TRUE}, n : (-1..MaxLimit) \cup {DefaultLimit}]

Min(a, b) == IF a < b THEN a ELSE b
Max(a, b) == IF a > b THEN a ELSE b

\* Python truthiness of `limit: Optional[int]`.
LimitTruthy(l) == l.given /\ l.n # 0

\* Python's s[:n].
Prefix(s, n) ==
    IF n >= 0 THEN SubSeq(s, 1, Min(n, Len(s))) ELSE SubSeq(s, 1, Max(0, Len(s) + n))

\* The limit counts as reached only once it is exceeded.
LimitReached_Strict(l, acc) == LimitTruthy(l) /\ Len(acc) > l.n

\* `if limit and len(items) >= limit`
LimitReached(l, acc) == LimitTruthy(l) /\ Len(acc) >= l.n

\* `continue_token = data.get("continue")`
NextCursor(data) == data.continue

\* What a query returns or raises: the exception's class, and for an APIError
\* its message, status_code (0: None) and response_text ("": None).
NoQueryResult ==
    [exc |-> "pending", items |-> <<>>, msg |-> "", status |-> 0, text |-> ""]
QReturned(s) == [exc |-> "none", items |-> s, msg |-> "", status |-> 0, text |-> ""]
QRaised(e) == [exc |-> e, items |-> <<>>, msg |-> "", status |-> 0, text |-> ""]
\* APIError(message, status_code, response_text): lines 64-69.
APIError(m, code, body) ==
    [exc |-> "APIError", items |-> <<>>, msg |-> m, status |-> code, text |-> body]

\* ------------------------------------------------------- the API's answers
\* The non-2xx statuses the API answers a GET with; raise_for_status raises
\* HTTPError for each (all are 4xx or 5xx).
HttpStatuses == {401, 403, 404, 500}
\* kind: "http"      a non-2xx status, its body the text "body"
\*       "network"   requests.get raises a RequestException (timeout, reset)
\*       "badjson"   2xx, resp.json() raises ValueError
\*       "notobject" 2xx, the body is JSON but no object (a list)
\*       "baditems"  2xx, a JSON object whose "items" is null
GetFailures ==
    [kind : {"http"}, status : HttpStatuses]
    \cup [kind : {"network", "badjson", "notobject", "baditems"}, status : {0}]
NoGet == [kind |-> "none", status |-> 0]
GetOk == [kind |-> "ok", status |-> 200]

\* A selector argument: None, "" or a selector expression.
SelectorInputs == {"unset", "empty", "given"}
\* Python truthiness of `label_selector: Optional[str]`.
SelectorTruthy(sel) == sel = "given"

\* The selectors go out with the first request only.
RequestParams_FirstPageOnly(t, ls, fs) ==
    (IF SelectorTruthy(ls) /\ t = 0 THEN {"labelSelector"} ELSE {})
    \cup (IF SelectorTruthy(fs) /\ t = 0 THEN {"fieldSelector"} ELSE {})
    \cup (IF t # 0 THEN {"continue"} ELSE {})

\* `params`, the names of the query parameters of a GET made with
\* continue_token = t and the selectors ls and fs. Lines 414-420.
RequestParams(t, ls, fs) ==
    (IF SelectorTruthy(ls) THEN {"labelSelector"} ELSE {})
    \cup (IF SelectorTruthy(fs) THEN {"fieldSelector"} ELSE {})
    \cup (IF t # 0 THEN {"continue"} ELSE {})

\* requests.get(url, headers=headers, params=params, ...) as the API sees it:
\* the parameter names, the value of `continue` (0: none), the bearer token;
\* and, of the caller at that moment, the number of items it holds and
\* whether the client's cached token is still valid.
Request(names, t, h, n, v) ==
    [params |-> names, continue |-> IF "continue" \in names THEN t ELSE 0,
     bearer |-> h, had |-> n, valid |-> v]
\* The request with what became of it: the cursor its response carried in
\* either place (0: none, or no page came), and the number of items the
\* caller holds once the response is dealt with.
Exchange(req, cursor, n) ==
    [params |-> req.params, continue |-> req.continue, bearer |-> req.bearer,
     had |-> req.had, valid |-> req.valid, cursor |-> cursor, count |-> n]
\* The cursor of a page, wherever the body carries it.
BodyCursor(data) ==
    IF data.continue # 0 THEN data.continue ELSE data.metadata_continue

\* A fresh token is fetched before every page.
PcAfterPage_Reauth == "token"

\* Where a page with a cursor leaves the query: at the top of `while True`.
PcAfterPage == "fetch"

\* The except clauses without the 404 branch: a 404 is an HTTP error like any other.
GetExcept_No404(o) ==
    CASE o.kind = "http" /\ o.status = 401 ->
           [QRaised("AuthenticationError") EXCEPT !.msg = "Authentication failed"]
      [] o.kind = "http" /\ o.status = 403 -> APIError("Access denied", 403, "")
      [] o.kind = "http" /\ o.status \notin {401, 403} ->
           APIError("Failed to query", o.status, "body")
      [] o.kind = "network" -> APIError("Network error", 0, "")
      [] o.kind = "badjson" -> APIError("Invalid JSON response", 0, "")
      [] o.kind = "notobject" -> QRaised("AttributeError")
      [] o.kind = "baditems" -> QRaised("TypeError")

\* What the body of the loop raises on a failed GET: the except clauses of
\* lines 428-447, and lines 449-450, which no try encloses.
GetExcept(o) ==
    CASE o.kind = "http" /\ o.status = 401 ->
           [QRaised("AuthenticationError") EXCEPT !.msg = "Authentication failed"]
      [] o.kind = "http" /\ o.status = 403 -> APIError("Access denied", 403, "")
      [] o.kind = "http" /\ o.status = 404 -> APIError("Resource not found", 404, "")
      [] o.kind = "http" /\ o.status \notin {401, 403, 404} ->
           APIError("Failed to query", o.status, "body")
      [] o.kind = "network" -> APIError("Network error", 0, "")
      [] o.kind = "badjson" -> APIError("Invalid JSON response", 0, "")
      [] o.kind = "notobject" -> QRaised("AttributeError")
      [] o.kind = "baditems" -> QRaised("TypeError")

\* A failed page is asked for again.
PcAfterRaise_Retry == "fetch"

\* Where a raise leaves the query: out of the loop and out of the function.
PcAfterRaise == "done"

\* The token call failed and the operation goes on all the same.
AfterToken_Proceeds(r, nxt) == nxt

\* Where an operation stands once its _get_access_token call was answered r:
\* `except AuthenticationError: raise` ends it, else it goes on to nxt.
AfterToken(r, nxt) == IF TryRaises(r) = "" THEN nxt ELSE "done"

\* A caller invokes _query_resources with a limit and selectors: lines 388-401.
QStart(l, ls, fs) ==
    /\ q_pc = "idle"
    /\ c_pc = "idle"
    /\ posts < MaxPosts
    /\ limit' = l
    /\ items' = <<>>
    /\ continue_token' = 0
    /\ page_count' = 0
    /\ last_page' = 0
    /\ headers' = None
    /\ params' = {}
    /\ label_selector' = ls
    /\ field_selector' = fs
    /\ log' = <<>>
    /\ token_calls' = 0
    /\ got' = NoGet
    /\ q_resp' = NoResponse
    /\ q_result' = NoQueryResult
    /\ q_pc' = "token"
    /\ UNCHANGED <<tokenVars, pages, consoleVars, configVars, sessionVars, toolVars>>

\* self._get_access_token() finds the cached token valid: lines 403-406.
QTokenCached ==
    /\ q_pc = "token"
    /\ LockFree
    /\ CacheValid(access_token, token_expiry, clock)
    /\ headers' = access_token
    /\ token_calls' = token_calls + 1
    /\ q_pc' = "fetch"
    /\ UNCHANGED <<tokenVars, pages, limit, items, continue_token, page_count,
                   last_page, params, got, q_resp, q_result, label_selector,
                   field_selector, log, consoleVars, configVars, sessionVars, toolVars>>

\* self._get_access_token() refreshes, the POST answered with r: lines 403-409.
QTokenRefresh(r) ==
    /\ q_pc = "token"
    /\ LockFree
    /\ ~CacheValid(access_token, token_expiry, clock)
    /\ posts' = posts + 1
    /\ access_token' = TokenAfter(r, posts', access_token)
    /\ token_expiry' = ExpiryAfter(r, clock, token_expiry)
    /\ q_resp' = r
    /\ last_failed' = (TryRaises(r) # "")
    /\ token_calls' = token_calls + 1
    /\ q_pc' = AfterToken(r, "fetch")
    /\ IF TryRaises(r) = ""
       THEN /\ headers' = ResponseToken(r, posts')
            /\ q_result' = q_result
       ELSE /\ headers' = headers
            /\ q_result' = QRaised(ExceptClause(TryRaises(r)).exc)
    /\ UNCHANGED <<clock, token_lock, pc, now, resp, result, posted, arrived, awaited,
                   pages, limit, items, continue_token, page_count, last_page,
                   params, got, label_selector, field_selector, log,
                   consoleVars, configVars, sessionVars, toolVars>>

\* One iteration of `while True` whose GET is answered 2xx with a page: the
\* GET, the page appended, the limit and cursor tests; lines 412-464.
QFetch ==
    /\ q_pc = "fetch"
    /\ LET req == Request(RequestParams(continue_token, label_selector, field_selector),
                          continue_token, headers, Len(items),
                          CacheValid(access_token, token_expiry, clock))
           k == PageFor(req.continue)
           data == Body(pages, k)
           acc == items \o data.items
       IN /\ page_count' = page_count + 1
          /\ last_page' = k
          /\ params' = req.params
          /\ got' = GetOk
          /\ items' = acc
          /\ log' = Append(log, Exchange(req, BodyCursor(data), Len(acc)))
          /\ IF LimitReached(limit, acc)
             THEN /\ q_result' = QReturned(Prefix(acc, limit.n))
                  /\ q_pc' = "done"
                  /\ continue_token' = continue_token
             ELSE /\ continue_token' = NextCursor(data)
                  /\ IF NextCursor(data) = 0
                     THEN q_result' = QReturned(acc) /\ q_pc' = "done"
                     ELSE q_result' = q_result /\ q_pc' = PcAfterPage
    /\ UNCHANGED <<tokenVars, pages, limit, headers, q_resp, label_selector,
                   field_selector, token_calls, consoleVars, configVars, sessionVars, toolVars>>

\* One iteration of `while True` whose GET fails with o: lines 412-450.
QFetchFail(o) ==
    /\ q_pc = "fetch"
    /\ LET req == Request(RequestParams(continue_token, label_selector, field_selector),
                          continue_token, headers, Len(items),
                          CacheValid(access_token, token_expiry, clock))
       IN /\ last_page' = PageFor(req.continue)
          /\ params' = req.params
          /\ log' = Append(log, Exchange(req, 0, Len(items)))
    /\ page_count' = page_count + 1
    /\ got' = o
    /\ q_result' = GetExcept(o)
    /\ q_pc' = PcAfterRaise
    /\ UNCHANGED <<tokenVars, pages, limit, items, continue_token, headers, q_resp,
                   label_selector, field_selector, token_calls, consoleVars, configVars, sessionVars, toolVars>>

\* The caller has consumed the query's outcome.
QFinish ==
    /\ q_pc = "done"
    /\ q_pc' = "idle"
    /\ limit' = NoLimit
    /\ items' = <<>>
    /\ continue_token' = 0
    /\ page_count' = 0
    /\ last_page' = 0
    /\ headers' = None
    /\ params' = {}
    /\ label_selector' = "unset"
    /\ field_selector' = "unset"
    /\ log' = <<>>
    /\ token_calls' = 0
    /\ got' = NoGet
    /\ q_resp' = NoResponse
    /\ q_result' = NoQueryResult
    /\ UNCHANGED <<tokenVars, pages, consoleVars, configVars, sessionVars, toolVars>>

\* ------------------------------------------------------ run_console_command
\* Text is a sequence of characters, " " standing for any whitespace.
Whitespace == {" "}
\* The kinds of text an argument is: a word, "", blanks only, or words with
\* blanks before, between and after them.
TextKinds == {"text", "empty", "blank", "words"}
Text(k) ==
    CASE k = "text" -> <<"a">>
      [] k = "empty" -> <<>>
      [] k = "blank" -> <<" ", " ">>
      [] k = "words" -> <<" ", "a", "b", " ", " ", "c", " ">>

\* str.rstrip() alone: leading whitespace stays.
RECURSIVE Strip_TrailingOnly(_)
Strip_TrailingOnly(s) ==
    IF s # <<>> /\ s[Len(s)] \in Whitespace
    THEN Strip_TrailingOnly(SubSeq(s, 1, Len(s) - 1))
    ELSE s

\* str.strip()
RECURSIVE Strip(_)
Strip(s) ==
    IF s = <<>> THEN s
    ELSE IF Head(s) \in Whitespace THEN Strip(Tail(s))
    ELSE IF s[Len(s)] \in Whitespace THEN Strip(SubSeq(s, 1, Len(s) - 1))
    ELSE s

\* The length of the word s starts with.
WordLen(s) ==
    IF \E i \in 1..Len(s) : s[i] \in Whitespace
    THEN (CHOOSE i \in 1..Len(s) :
              s[i] \in Whitespace /\ \A j \in 1..(i - 1) : s[j] \notin Whitespace) - 1
    ELSE Len(s)

\* str.split(): the words between runs of whitespace.
RECURSIVE Split(_)
Split(s) ==
    IF s = <<>> THEN <<>>
    ELSE IF Head(s) \in Whitespace THEN Split(Tail(s))
    ELSE <<SubSeq(s, 1, WordLen(s))>> \o Split(SubSeq(s, WordLen(s) + 1, Len(s)))

\* `[arg for arg in cmd if arg]`
RECURSIVE NonEmpty(_)
NonEmpty(argv) ==
    IF argv = <<>> THEN <<>>
    ELSE IF Head(argv) = <<>> THEN NonEmpty(Tail(argv))
    ELSE <<Head(argv)>> \o NonEmpty(Tail(argv))

\* `"--insecure-skip-tls-verify" if self.config.insecure_skip_verify else ""`
SkipFlag(skip) == IF skip THEN <<"--insecure-skip-tls-verify">> ELSE <<>>
\* The token as an argument: a falsy one (None, "") is an empty argument.
TokenArg(t) == IF Truthy(t) THEN <<"<token>">> ELSE <<>>

\* login_cmd, lines 303-312.
LoginCmd(skip, t) ==
    NonEmpty(<< <<"cli_path">>, <<"console">>, <<"login">>, SkipFlag(skip),
                <<"--token">>, TokenArg(t) >>)

\* cmd, lines 323-331.
ExecCmd(skip, dev, cmd) ==
    NonEmpty(<< <<"cli_path">>, <<"console">>, <<"device/">> \o Text(dev),
                SkipFlag(skip), <<"--">> >> \o Split(Text(cmd)))

\* What the execute process may write to its standard output.
Outputs == UNION {[1..n -> {"a", " "}] : n \in 0..MaxOutLen}
\* `not s or not s.strip()`
Blank(s) == s \in {"empty", "blank"}

\* How a process subprocess.run starts ends: exit status 0, a nonzero status
\* (CalledProcessError under check=True), or no start at all (FileNotFoundError,
\* PermissionError: an OSError).
ProcOutcomes == {"exit0", "nonzero", "oserror"}
\* What starting `cli_path` can give: nothing but an OSError when no
\* executable is there.
Launch(p) == IF p THEN ProcOutcomes ELSE {"oserror"}

\* What run_console_command returns or raises: the exception's class, its
\* message, whose captured stderr and which device name the message carries,
\* and the returned text.
NoConsoleResult ==
    [exc |-> "pending", msg |-> "", stderr |-> "", device |-> "", out |-> <<>>]
CReturned(o) == [exc |-> "none", msg |-> "", stderr |-> "", device |-> "", out |-> o]
CRaised(e, m, err) == [exc |-> e, msg |-> m, stderr |-> err, device |-> "", out |-> <<>>]

\* The checks before the token: lines 285-293. "" when all pass, else the
\* message of the FlightControlError raised.
Precheck(w, dev, cmd) ==
    IF ~w THEN "flightctl CLI not found"
    ELSE IF Blank(dev) THEN "Device name cannot be empty"
    ELSE IF Blank(cmd) THEN "Command cannot be empty"
    ELSE ""

\* The login step's except clause, lines 315-320: CalledProcessError only.
LoginExcept(lo) ==
    IF lo = "nonzero"
    THEN CRaised("FlightControlError", "Failed to login to flightctl console", "login")
    ELSE CRaised("OSError", "", "")

\* The execute step's except clauses, lines 338-344.
ExecExcept(eo, dev) ==
    IF eo = "nonzero"
    THEN [CRaised("FlightControlError", "Console command failed on device", "exec")
             EXCEPT !.device = dev]
    ELSE CRaised("FlightControlError", "Unexpected error running console command", "")

\* subprocess.run(login_cmd) without check=True: the exit status is not looked at.
AfterLogin_Unchecked(lo) == "exec"

\* Where the login step leaves the invocation.
AfterLogin(lo) == IF lo = "exit0" THEN "exec" ELSE "done"

\* A failed execute step is run again.
AfterExec_Retry(eo) == IF eo = "exit0" THEN "done" ELSE "exec"

\* Where the execute step leaves the invocation: it returns or raises.
AfterExec(eo) == "done"

\* A caller invokes run_console_command; the checks of lines 285-293 run.
CStart(w, p, dev, cmd) ==
    /\ c_pc = "idle"
    /\ q_pc \in {"idle", "done"}
    /\ posts < MaxPosts
    /\ on_path' = w
    /\ path_ok' = p
    /\ device_name' = dev
    /\ command' = cmd
    /\ c_token' = None
    /\ c_resp' = NoResponse
    /\ steps' = <<>>
    /\ login_out' = "none"
    /\ exec_out' = "none"
    /\ login_argv' = <<>>
    /\ exec_argv' = <<>>
    /\ stdout' = <<>>
    /\ IF Precheck(w, dev, cmd) = ""
       THEN c_pc' = "token" /\ c_result' = NoConsoleResult
       ELSE /\ c_pc' = "done"
            /\ c_result' = CRaised("FlightControlError", Precheck(w, dev, cmd), "")
    /\ UNCHANGED <<configVars, sessionVars, toolVars, tokenVars, queryVars, insecure_skip_verify>>

\* self._get_access_token() finds the cached token valid: lines 295-297.
CTokenCached ==
    /\ c_pc = "token"
    /\ LockFree
    /\ CacheValid(access_token, token_expiry, clock)
    /\ c_token' = access_token
    /\ steps' = Append(steps, "token")
    /\ c_pc' = "login"
    /\ UNCHANGED <<configVars, sessionVars, toolVars, tokenVars, queryVars, on_path, path_ok, device_name, command,
                   c_resp, login_out, exec_out, insecure_skip_verify, login_argv,
                   exec_argv, stdout, c_result>>

\* self._get_access_token() refreshes, the POST answered with r: lines 295-300.
CTokenRefresh(r) ==
    /\ c_pc = "token"
    /\ LockFree
    /\ ~CacheValid(access_token, token_expiry, clock)
    /\ posts' = posts + 1
    /\ access_token' = TokenAfter(r, posts', access_token)
    /\ token_expiry' = ExpiryAfter(r, clock, token_expiry)
    /\ c_resp' = r
    /\ last_failed' = (TryRaises(r) # "")
    /\ steps' = Append(steps, "token")
    /\ c_pc' = AfterToken(r, "login")
    /\ IF TryRaises(r) = ""
       THEN /\ c_token' = ResponseToken(r, posts')
            /\ c_result' = c_result
       ELSE /\ c_token' = c_token
            /\ c_result' = CRaised(ExceptClause(TryRaises(r)).exc, "", "")
    /\ UNCHANGED <<clock, token_lock, pc, now, resp, result, posted, arrived, awaited,
                   queryVars, on_path, path_ok, device_name, command, login_out,
                   exec_out, insecure_skip_verify, login_argv, exec_argv, stdout,
                   configVars, sessionVars, toolVars>>

\* subprocess.run(login_cmd, check=True, ...) ends with lo: lines 302-320.
CLogin(lo) ==
    /\ c_pc = "login"
    /\ lo \in Launch(path_ok)
    /\ steps' = Append(steps, "login")
    /\ login_out' = lo
    /\ login_argv' = LoginCmd(insecure_skip_verify, c_token)
    /\ c_pc' = AfterLogin(lo)
    /\ c_result' = IF lo = "exit0" THEN c_result ELSE LoginExcept(lo)
    /\ UNCHANGED <<configVars, sessionVars, toolVars, tokenVars, queryVars, on_path, path_ok, device_name, command,
                   c_token, c_resp, exec_out, insecure_skip_verify, exec_argv, stdout>>

\* subprocess.run(cmd, check=True, ...) ends with eo, having written out to
\* its standard output: lines 322-344.
CExec(eo, out) ==
    /\ c_pc = "exec"
    /\ eo \in Launch(path_ok)
    /\ eo = "oserror" => out = <<>>
    /\ steps' = Append(steps, "exec")
    /\ exec_out' = eo
    /\ exec_argv' = ExecCmd(insecure_skip_verify, device_name, command)
    /\ stdout' = out
    /\ c_pc' = AfterExec(eo)
    /\ c_result' = IF eo = "exit0" THEN CReturned(Strip(out)) ELSE ExecExcept(eo, device_name)
    /\ UNCHANGED <<configVars, sessionVars, toolVars, tokenVars, queryVars, on_path, path_ok, device_name, command,
                   c_token, c_resp, login_out, insecure_skip_verify, login_argv>>

\* The caller has consumed the command's outcome.
CFinish ==
    /\ c_pc = "done"
    /\ c_pc' = "idle"
    /\ on_path' = FALSE
    /\ path_ok' = FALSE
    /\ device_name' = "empty"
    /\ command' = "empty"
    /\ c_token' = None
    /\ c_resp' = NoResponse
    /\ steps' = <<>>
    /\ login_out' = "none"
    /\ exec_out' = "none"
    /\ login_argv' = <<>>
    /\ exec_argv' = <<>>
    /\ stdout' = <<>>
    /\ c_result' = NoConsoleResult
    /\ UNCHANGED <<configVars, sessionVars, toolVars, tokenVars, queryVars, insecure_skip_verify>>

\* ------------------------------------------------------------ Configuration
\* A setting's value: its kind, where it was read from, and whether the text
\* ends with "/".
\* kind: "unset"  None: no such variable, no such key
\*       "empty"  the string ""
\*       "plain"  a text, a URL
\*       "realm"  a URL that ends with /realms/<name>
\*       "full"   a URL that ends with /protocol/openid-connect/token
\*       "true"   one of "true", "1", "yes" in any case; the YAML value true
\*       "false"  any other non-empty text
\*       "path_ok", "path_missing"  a path to a file that exists, does not exist
Val(k, from, sl) == [kind |-> k, src |-> from, slash |-> sl]
Absent == Val("unset", "default", FALSE)
\* Python truthiness of an Optional[str].
IsSet(v) == v.kind \notin {"unset", "empty"}

\* os.environ as _load_config may find it.
Environs ==
    [API_BASE_URL : {Absent, Val("empty", "env", FALSE), Val("plain", "env", TRUE)},
     OIDC_TOKEN_URL : {Absent, Val("empty", "env", FALSE), Val("realm", "env", TRUE),
                       Val("full", "env", FALSE)},
     OIDC_CLIENT_ID : {Absent, Val("empty", "env", FALSE), Val("plain", "env", FALSE)},
     REFRESH_TOKEN : {Absent, Val("empty", "env", FALSE), Val("plain", "env", FALSE)},
     INSECURE_SKIP_VERIFY : {Absent, Val("empty", "env", FALSE), Val("true", "env", FALSE),
                             Val("false", "env", FALSE)},
     CA_CERT_PATH : {Absent, Val("path_ok", "env", FALSE), Val("path_missing", "env", FALSE)}]

\* client.yaml as _load_config may find it: no file, a well-formed file with
\* or without each key, or a file whose reading raises: before anything is
\* assigned (invalid YAML, an empty document, `service:` without a mapping) or
\* after the service block (`authentication:` without a mapping).
NoFile ==
    [exists |-> FALSE, raises |-> "never", server |-> Absent, insecureSkipVerify |-> Absent,
     oidc_server |-> Absent, client_id |-> Absent, refresh_token |-> Absent,
     certificate_authority |-> Absent]
Files ==
    {NoFile} \cup
    [exists : {TRUE}, raises : {"never"},
     server : {Absent, Val("plain", "file", TRUE)},
     insecureSkipVerify : {Absent, Val("true", "file", FALSE)},
     oidc_server : {Absent, Val("realm", "file", FALSE)},
     client_id : {Absent, Val("plain", "file", FALSE)},
     refresh_token : {Absent, Val("plain", "file", FALSE)},
     certificate_authority : {Absent, Val("path_ok", "file", FALSE)}] \cup
    [exists : {TRUE}, raises : {"service"},
     server : {Absent},
     insecureSkipVerify : {Absent},
     oidc_server : {Val("realm", "file", FALSE)},
     client_id : {Val("plain", "file", FALSE)},
     refresh_token : {Val("plain", "file", FALSE)},
     certificate_authority : {Absent}] \cup
    [exists : {TRUE}, raises : {"authentication"},
     server : {Absent, Val("plain", "file", TRUE)},
     insecureSkipVerify : {Absent, Val("true", "file", FALSE)},
     oidc_server : {Absent},
     client_id : {Absent},
     refresh_token : {Absent},
     certificate_authority : {Absent}]
\* The lines of the file block that run before the `except` takes over.
ReadsService(f) == f.exists /\ f.raises # "service"
ReadsAuthentication(f) == f.exists /\ f.raises = "never"
NoEnviron ==
    [API_BASE_URL |-> Absent, OIDC_TOKEN_URL |-> Absent, OIDC_CLIENT_ID |-> Absent,
     REFRESH_TOKEN |-> Absent, INSECURE_SKIP_VERIFY |-> Absent, CA_CERT_PATH |-> Absent]

\* dict.get(key, default)
GetOr(v, default) == IF v.kind = "unset" THEN default ELSE v
\* str.rstrip("/")
RStripSlash(v) == [v EXCEPT !.slash = FALSE]
\* The client id when nothing sets it: "flightctl".
DefaultClientId == Val("plain", "default", FALSE)

\* The value the file has the last word on.
Override_FileWins(e, cur) == IF IsSet(cur) THEN cur ELSE e

\* `if os.environ.get(X): self.x = os.environ[X]`
Override(e, cur) == IF IsSet(e) THEN e ELSE cur

\* The OIDC URL auto-fix of lines 147-153.
AutoFix(v) == IF IsSet(v) /\ v.kind = "realm" THEN [v EXCEPT !.kind = "full"] ELSE v

\* Configuration._load_config: defaults, then the file, then the environment.
LoadConfig(f, env) ==
    LET api0 == IF ReadsService(f)
                THEN RStripSlash(GetOr(f.server, Val("empty", "file", FALSE)))
                ELSE Absent
        skip0 == ReadsService(f) /\ f.insecureSkipVerify.kind = "true"
        oidc0 == IF ReadsAuthentication(f)
                 THEN RStripSlash(GetOr(f.oidc_server, Val("empty", "file", FALSE)))
                 ELSE Absent
        id0 == IF ReadsAuthentication(f)
               THEN GetOr(f.client_id, DefaultClientId) ELSE DefaultClientId
        refresh0 == IF ReadsAuthentication(f) THEN f.refresh_token ELSE Absent
        ca0 == IF ReadsAuthentication(f) /\ f.certificate_authority.kind = "path_ok"
               THEN f.certificate_authority ELSE Absent
    IN [api_base_url |-> Override(RStripSlash(env.API_BASE_URL), api0),
        oidc_token_url |-> AutoFix(Override(RStripSlash(env.OIDC_TOKEN_URL), oidc0)),
        client_id |-> Override(env.OIDC_CLIENT_ID, id0),
        refresh_token |-> Override(env.REFRESH_TOKEN, refresh0),
        insecure_skip_verify |->
            IF IsSet(env.INSECURE_SKIP_VERIFY)
            THEN env.INSECURE_SKIP_VERIFY.kind = "true"
            ELSE skip0,
        ca_cert_path |->
            IF env.CA_CERT_PATH.kind = "path_ok" THEN env.CA_CERT_PATH ELSE ca0]

\* No Configuration loaded yet.
NoConfig ==
    [api_base_url |-> Absent, oidc_token_url |-> Absent, client_id |-> Absent,
     refresh_token |-> Absent, insecure_skip_verify |-> FALSE, ca_cert_path |-> Absent]

\* What get_ssl_verify returns: False, True, or the path of a CA bundle.
Verify(k, path) == [kind |-> k, path |-> path]
NoVerify == Verify("none", Absent)

\* A CA certificate path wins over insecure_skip_verify.
GetSslVerify_CAFirst(cf) ==
    IF IsSet(cf.ca_cert_path) THEN Verify("path", cf.ca_cert_path)
    ELSE IF cf.insecure_skip_verify THEN Verify("False", Absent)
    ELSE Verify("True", Absent)

\* Configuration.get_ssl_verify
GetSslVerify(cf) ==
    IF cf.insecure_skip_verify THEN Verify("False", Absent)
    ELSE IF IsSet(cf.ca_cert_path) THEN Verify("path", cf.ca_cert_path)
    ELSE Verify("True", Absent)

\* What FlightControlClient(config) gives: a client with its cache attributes,
\* or the FlightControlError raised. Before the call nothing is assigned.
Unassigned == [k |-> "unassigned", id |-> 0]
NoClient ==
    [created |-> FALSE, exc |-> "pending", msg |-> "",
     access_token |-> Unassigned, token_expiry |-> -1]
ClientRaised(m) == [NoClient EXCEPT !.exc = "FlightControlError", !.msg = m]
ClientCreated ==
    [created |-> TRUE, exc |-> "none", msg |-> "",
     access_token |-> None, token_expiry |-> 0]

\* The constructor without its last check.
NewClient_NoRefreshCheck(cf) ==
    IF ~IsSet(cf.api_base_url) THEN ClientRaised("API_BASE_URL not configured")
    ELSE IF ~IsSet(cf.oidc_token_url) THEN ClientRaised("OIDC_TOKEN_URL not configured")
    ELSE ClientCreated

\* FlightControlClient.__init__
NewClient(cf) ==
    IF ~IsSet(cf.api_base_url) THEN ClientRaised("API_BASE_URL not configured")
    ELSE IF ~IsSet(cf.oidc_token_url) THEN ClientRaised("OIDC_TOKEN_URL not configured")
    ELSE IF ~IsSet(cf.refresh_token) THEN ClientRaised("REFRESH_TOKEN not configured")
    ELSE ClientCreated

\* config = Configuration()
CfLoad ==
    /\ cf_pc = "new"
    /\ config' = LoadConfig(the_file, environ)
    /\ cf_pc' = "loaded"
    /\ UNCHANGED <<tokenVars, queryVars, consoleVars, the_file, environ, client, ssl_verify,
                   sessionVars, toolVars>>

\* FlightControlClient(config): main.py's get_client.
CfNewClient ==
    /\ cf_pc = "loaded"
    /\ client' = NewClient(config)
    /\ cf_pc' = "client"
    /\ UNCHANGED <<tokenVars, queryVars, consoleVars, the_file, environ, config, ssl_verify,
                   sessionVars, toolVars>>

\* config.get_ssl_verify()
CfGetSslVerify ==
    /\ cf_pc = "client"
    /\ ssl_verify' = GetSslVerify(config)
    /\ cf_pc' = "verify"
    /\ UNCHANGED <<tokenVars, queryVars, consoleVars, the_file, environ, config, client,
                   sessionVars, toolVars>>

\* --------------------------------- run_console_command on several threads
\* The threads of Callers each run run_console_command on the one client,
\* with flightctl on the PATH and a plain device name and command, so the
\* checks of lines 285-293 pass. The CLI keeps the login of its last
\* successful `console login` in its own files; `session` names the thread
\* that login belonged to.

\* A thread enters run_console_command: lines 271-293. The threads are
\* interchangeable: the first idle one goes. Entries stop once each could
\* need a POST beyond MaxPosts.
KStart(i) ==
    /\ k_pc[i] = "idle"
    /\ \A j \in Callers : j < i => k_pc[j] # "idle"
    /\ \/ posts + Cardinality({j \in Callers : k_pc[j] = "token"}) < MaxPosts
       \/ CacheValid(access_token, token_expiry, MaxTime)
    /\ k_pc' = [k_pc EXCEPT ![i] = "token"]
    /\ k_token' = [k_token EXCEPT ![i] = None]
    /\ k_ran' = [k_ran EXCEPT ![i] = 0]
    /\ UNCHANGED <<tokenVars, queryVars, consoleVars, configVars, session, toolVars>>

\* self._get_access_token() finds the cached token valid: lines 295-297.
KTokenCached(i) ==
    /\ k_pc[i] = "token"
    /\ LockFree
    /\ CacheValid(access_token, token_expiry, clock)
    /\ k_token' = [k_token EXCEPT ![i] = access_token]
    /\ k_pc' = [k_pc EXCEPT ![i] = "login"]
    /\ UNCHANGED <<tokenVars, queryVars, consoleVars, configVars, session, k_ran, toolVars>>

\* self._get_access_token() refreshes, the POST answered with r: lines 295-300.
KTokenRefresh(i, r) ==
    /\ k_pc[i] = "token"
    /\ LockFree
    /\ ~CacheValid(access_token, token_expiry, clock)
    /\ posts' = posts + 1
    /\ access_token' = TokenAfter(r, posts', access_token)
    /\ token_expiry' = ExpiryAfter(r, clock, token_expiry)
    /\ last_failed' = (TryRaises(r) # "")
    /\ k_pc' = [k_pc EXCEPT ![i] = AfterToken(r, "login")]
    /\ k_token' = [k_token EXCEPT ![i] =
                      IF TryRaises(r) = "" THEN ResponseToken(r, posts') ELSE None]
    /\ UNCHANGED <<clock, token_lock, pc, now, resp, result, posted, arrived, awaited,
                   queryVars, consoleVars, configVars, session, k_ran, toolVars>>

\* subprocess.run(login_cmd, check=True, ...) ends with lo: lines 302-320.
\* A login that exits 0 has replaced the CLI's stored login.
KLogin(i, lo) ==
    /\ k_pc[i] = "login"
    /\ session' = IF lo = "exit0" THEN i ELSE session
    /\ k_pc' = [k_pc EXCEPT ![i] = AfterLogin(lo)]
    /\ UNCHANGED <<tokenVars, queryVars, consoleVars, configVars, k_token, k_ran, toolVars>>

\* subprocess.run(cmd, check=True, ...) ends with eo: lines 322-344. The CLI
\* runs the command under the login it finds stored.
KExec(i, eo) ==
    /\ k_pc[i] = "exec"
    /\ k_ran' = [k_ran EXCEPT ![i] = IF eo = "oserror" THEN 0 ELSE session]
    /\ k_pc' = [k_pc EXCEPT ![i] = AfterExec(eo)]
    /\ UNCHANGED <<tokenVars, queryVars, consoleVars, configVars, k_token, session, toolVars>>

\* The thread's caller has consumed the outcome.
KFinish(i) ==
    /\ k_pc[i] = "done"
    /\ k_pc' = [k_pc EXCEPT ![i] = "idle"]
    /\ k_token' = [k_token EXCEPT ![i] = None]
    /\ k_ran' = [k_ran EXCEPT ![i] = 0]
    /\ UNCHANGED <<tokenVars, queryVars, consoleVars, configVars, session, toolVars>>

\* ------------------------------------------ main.py: run_command_on_device
\* main.py's `_cli`: None, or a FlightctlCLI with its cli_path ("install_dir":
\* <install_dir>/flightctl, "system": what shutil.which found) and whether a
\* download() of it has come to its end without raising.
NoCli == [set |-> FALSE, downloaded |-> FALSE, cli_path |-> "none"]
\* FlightctlCLI(api_url): cli.py lines 9-14.
NewCli == [set |-> TRUE, downloaded |-> FALSE, cli_path |-> "install_dir"]

\* How download() goes when flightctl is not on the PATH: curl exits nonzero,
\* tar exits nonzero, the archive holds no `flightctl` file, or all is well.
DownloadOutcomes == {"ok", "curl_fail", "tar_fail", "no_binary"}

\* FlightctlCLI.download on instance cli, with w what shutil.which finds and d
\* how the download goes: the instance after it, the exception raised ("":
\* none), the processes started, whether flightctl is now installed.
Download(cli, w, d) ==
    IF w
    THEN [cli |-> [cli EXCEPT !.cli_path = "system", !.downloaded = TRUE],
          exc |-> "", procs |-> <<>>, installed |-> TRUE]
    ELSE CASE d = "curl_fail" ->
                [cli |-> cli, exc |-> "CalledProcessError", procs |-> <<"curl">>,
                 installed |-> FALSE]
           [] d = "tar_fail" ->
                [cli |-> cli, exc |-> "CalledProcessError", procs |-> <<"curl", "tar">>,
                 installed |-> FALSE]
           [] d = "no_binary" ->
                [cli |-> cli, exc |-> "RuntimeError", procs |-> <<"curl", "tar">>,
                 installed |-> FALSE]
           [] d = "ok" ->
                [cli |-> [cli EXCEPT !.downloaded = TRUE], exc |-> "",
                 procs |-> <<"curl", "tar">>, installed |-> TRUE]

\* main.py's get_cli with `_cli` = cli: `_cli` is assigned before download()
\* is called, and a `_cli` that is set is returned as it is.
GetCli(cli, w, d) ==
    IF cli.set
    THEN [cli |-> cli, exc |-> "", procs |-> <<>>, installed |-> w]
    ELSE Download(NewCli, w, d)

\* What the tool returns or raises.
NoToolResult == [exc |-> "pending", msg |-> ""]
ToolResult(e, m) == [exc |-> e, msg |-> m]

\* The agent calls run_command_on_device(device_name, command): line 424.
TStart(dev, cmd) ==
    /\ t_pc = "idle"
    /\ c_pc = "idle"
    /\ q_pc = "idle"
    /\ posts < MaxPosts
    /\ t_device' = dev
    /\ t_command' = cmd
    /\ t_log' = <<>>
    /\ got_cli' = FALSE
    /\ t_result' = NoToolResult
    /\ t_pc' = "client"
    /\ UNCHANGED <<tokenVars, queryVars, consoleVars, configVars, sessionVars,
                   g_client, g_cli, installed>>

\* get_client(), the first operand of line 449: main.py lines 17-23.
TGetClient ==
    /\ t_pc = "client"
    /\ LET made == NewClient(LoadConfig(the_file, environ))
       IN IF g_client \/ made.created
          THEN /\ g_client' = TRUE
               /\ t_pc' = "cli"
               /\ t_result' = t_result
          ELSE /\ g_client' = FALSE
               /\ t_pc' = "done"
               /\ t_result' = ToolResult(made.exc, made.msg)
    /\ UNCHANGED <<tokenVars, queryVars, consoleVars, configVars, sessionVars,
                   t_device, t_command, g_cli, installed, t_log, got_cli>>

\* get_cli(), evaluated for the argument list of line 449: main.py lines 26-33.
TGetCli(d) ==
    /\ t_pc = "cli"
    /\ LET r == GetCli(g_cli, installed, d)
       IN /\ g_cli' = r.cli
          /\ installed' = r.installed
          /\ t_log' = t_log \o r.procs
          /\ got_cli' = (r.exc = "")
          /\ t_pc' = IF r.exc = "" THEN "run" ELSE "done"
          /\ t_result' = IF r.exc = "" THEN t_result ELSE ToolResult(r.exc, "")
    /\ UNCHANGED <<tokenVars, queryVars, consoleVars, configVars, sessionVars,
                   t_device, t_command, g_client>>

\* run_console_command(cli_path, device_name, command) is entered: line 449.
\* Its cli_path can be started when the instance's download() went through.
TRun ==
    /\ t_pc = "run"
    /\ c_result = NoConsoleResult
    /\ CStart(installed, g_cli.downloaded, t_device, t_command)

\* run_console_command has returned or raised, and so does the tool.
TReturn ==
    /\ t_pc = "run"
    /\ c_pc = "done"
    /\ t_result' = ToolResult(c_result.exc, c_result.msg)
    /\ t_pc' = "done"
    /\ UNCHANGED <<tokenVars, queryVars, consoleVars, configVars, sessionVars,
                   t_device, t_command, g_client, g_cli, installed, t_log, got_cli>>

\* The agent has the tool's outcome.
TFinish ==
    /\ t_pc = "done"
    /\ c_pc = "idle"
    /\ t_pc' = "idle"
    /\ t_device' = "empty"
    /\ t_command' = "empty"
    /\ t_log' = <<>>
    /\ got_cli' = FALSE
    /\ t_result' = NoToolResult
    /\ UNCHANGED <<tokenVars, queryVars, consoleVars, configVars, sessionVars,
                   g_client, g_cli, installed>>

\* ------------------------------------------------------------ specifications
\* FlightControlClient.__init__: no token, expiry 0, the lock free.
InitToken ==
    /\ clock = 0
    /\ access_token = None
    /\ token_expiry = 0
    /\ token_lock = 0
    /\ pc = [c \in Callers |-> "idle"]
    /\ now = [c \in Callers |-> 0]
    /\ resp = [c \in Callers |-> NoResponse]
    /\ result = [c \in Callers |-> NoResult]
    /\ posted = [c \in Callers |-> 0]
    /\ arrived = [c \in Callers |-> 0]
    /\ awaited = [c \in Callers |-> NotAwaited]
    /\ posts = 0
    /\ last_failed = FALSE

\* No query is running.
InitQuery ==
    /\ q_pc = "idle"
    /\ limit = NoLimit
    /\ items = <<>>
    /\ continue_token = 0
    /\ page_count = 0
    /\ last_page = 0
    /\ headers = None
    /\ params = {}
    /\ label_selector = "unset"
    /\ field_selector = "unset"
    /\ log = <<>>
    /\ token_calls = 0
    /\ got = NoGet
    /\ q_resp = NoResponse
    /\ q_result = NoQueryResult

\* No console command is running.
InitConsole ==
    /\ c_pc = "idle"
    /\ on_path = FALSE
    /\ path_ok = FALSE
    /\ device_name = "empty"
    /\ command = "empty"
    /\ c_token = None
    /\ c_resp = NoResponse
    /\ steps = <<>>
    /\ login_out = "none"
    /\ exec_out = "none"
    /\ login_argv = <<>>
    /\ exec_argv = <<>>
    /\ stdout = <<>>
    /\ c_result = NoConsoleResult

\* No Configuration loaded, nothing in the environment.
InitConfig ==
    /\ the_file = NoFile
    /\ environ = NoEnviron
    /\ cf_pc = "new"
    /\ config = NoConfig
    /\ client = NoClient
    /\ ssl_verify = NoVerify

\* No thread is in run_console_command; the CLI has no login stored.
InitSessions ==
    /\ k_pc = [i \in Callers |-> "idle"]
    /\ k_token = [i \in Callers |-> None]
    /\ session = 0
    /\ k_ran = [i \in Callers |-> 0]

\* No tool call is running; `_client` and `_cli` are None.
InitTool ==
    /\ t_pc = "idle"
    /\ t_device = "empty"
    /\ t_command = "empty"
    /\ g_client = FALSE
    /\ g_cli = NoCli
    /\ installed = FALSE
    /\ t_log = <<>>
    /\ got_cli = FALSE
    /\ t_result = NoToolResult

\* Concurrent _get_access_token callers on one client.
Init ==
    /\ InitToken /\ InitQuery /\ InitConsole /\ InitConfig /\ InitSessions /\ InitTool
    /\ insecure_skip_verify = FALSE
    /\ pages = <<[n |-> 0, at |-> "none"]>>

Next ==
    \/ Tick
    \/ \E c \in Callers : Call(c)
    \/ \E c \in Callers : Acquire(c)
    \/ \E c \in Callers : CachedReturn(c)
    \/ \E c \in Callers : BeginRefresh(c)
    \/ \E c \in Callers : \E r \in Responses : EndRefresh(c, r)
    \/ \E c \in Callers : Finish(c)

Spec == Init /\ [][Next]_vars

\* The same callers under fair scheduling: a thread that can take the free
\* lock, test the cache, send its POST or hand back its outcome does so in the
\* end. The answer to a POST is the server's to give: requests.post is called
\* without `timeout`, so nothing on the client ends the wait for it.
SpecFair ==
    /\ Init
    /\ [][Next]_vars
    /\ \A c \in Callers :
          /\ WF_vars(Acquire(c))
          /\ WF_vars(CachedReturn(c))
          /\ WF_vars(BeginRefresh(c))
          /\ WF_vars(Finish(c))

\* Queries without selectors, one after the other, against any backend
\* collection.
InitQ ==
    /\ InitToken /\ InitQuery /\ InitConsole /\ InitConfig /\ InitSessions /\ InitTool
    /\ insecure_skip_verify = FALSE
    /\ pages \in PageSeqs

NextQ ==
    \/ \E l \in LimitInputs : QStart(l, "unset", "unset")
    \/ QTokenCached
    \/ \E r \in Responses : QTokenRefresh(r)
    \/ QFetch
    \/ \E o \in GetFailures : QFetchFail(o)
    \/ QFinish

SpecQuery == InitQ /\ [][NextQ]_vars

\* A backend whose pages have one item each.
InitP ==
    /\ InitToken /\ InitQuery /\ InitConsole /\ InitConfig /\ InitSessions /\ InitTool
    /\ insecure_skip_verify = FALSE
    /\ pages \in {p \in PageSeqs : \A k \in 1..Len(p) : p[k].n = 1}

\* Queries over collections of one-item pages when every GET that is sent is
\* answered, with a page or with a failure: the iteration of `while True`
\* that has begun comes to its end.
SpecQueryFair ==
    /\ InitP
    /\ [][NextQ]_vars
    /\ WF_vars(QFetch \/ \E o \in GetFailures : QFetchFail(o))

\* Console commands, one after the other.
NextC ==
    \/ \E w, p \in BOOLEAN : \E dev, cmd \in TextKinds : CStart(w, p, dev, cmd)
    \/ CTokenCached
    \/ \E r \in Responses : CTokenRefresh(r)
    \/ \E lo \in ProcOutcomes : CLogin(lo)
    \/ \E eo \in ProcOutcomes : \E out \in Outputs : CExec(eo, out)
    \/ CFinish

\* A client configured with or without insecure_skip_verify.
InitC ==
    /\ InitToken /\ InitQuery /\ InitConsole /\ InitConfig /\ InitSessions /\ InitTool
    /\ insecure_skip_verify \in BOOLEAN
    /\ pages = <<[n |-> 0, at |-> "none"]>>

SpecConsole == InitC /\ [][NextC]_vars

\* Queries and console commands on one client: a command may start while the
\* outcome of a query is still with its caller. The commands are given a plain
\* device name and command, and write nothing.
InitOps ==
    /\ InitToken /\ InitQuery /\ InitConsole /\ InitConfig /\ InitSessions /\ InitTool
    /\ insecure_skip_verify = FALSE
    /\ pages \in {p \in PageSeqs : Len(p) = 1}
NextOps ==
    \/ NextQ
    \/ \E w, p \in BOOLEAN : CStart(w, p, "text", "text")
    \/ CTokenCached
    \/ \E r \in Responses : CTokenRefresh(r)
    \/ \E lo \in ProcOutcomes : CLogin(lo)
    \/ \E eo \in ProcOutcomes : CExec(eo, <<>>)
    \/ CFinish
SpecOps == InitOps /\ [][NextOps]_vars

\* Queries with any selectors and no limit, one after the other, while the
\* clock runs on between their steps; every page of the collection has one item.
NextP ==
    \/ Tick
    \/ \E ls, fs \in SelectorInputs : QStart(NoLimit, ls, fs)
    \/ QTokenCached
    \/ \E r \in Responses : QTokenRefresh(r)
    \/ QFetch
    \/ \E o \in GetFailures : QFetchFail(o)
    \/ QFinish
SpecPages == InitP /\ [][NextP]_vars

\* Threads running console commands on one client at the same time.
NextK ==
    \/ \E i \in Callers : KStart(i)
    \/ \E i \in Callers : KTokenCached(i)
    \/ \E i \in Callers : \E r \in Responses : KTokenRefresh(i, r)
    \/ \E i \in Callers : \E lo \in ProcOutcomes : KLogin(i, lo)
    \/ \E i \in Callers : \E eo \in ProcOutcomes : KExec(i, eo)
    \/ \E i \in Callers : KFinish(i)
SpecSessions == Init /\ [][NextK]_vars

\* The environment of a process that has every required setting.
FullEnviron ==
    [NoEnviron EXCEPT !.API_BASE_URL = Val("plain", "env", TRUE),
                      !.OIDC_TOKEN_URL = Val("full", "env", FALSE),
                      !.REFRESH_TOKEN = Val("plain", "env", FALSE)]

\* run_command_on_device calls, one after the other, in a process with or
\* without its settings and with or without flightctl on the PATH.
InitT ==
    /\ InitToken /\ InitQuery /\ InitConsole /\ InitSessions
    /\ insecure_skip_verify = FALSE
    /\ pages = <<[n |-> 0, at |-> "none"]>>
    /\ the_file = NoFile
    /\ environ \in {NoEnviron, FullEnviron}
    /\ cf_pc = "new"
    /\ config = NoConfig
    /\ client = NoClient
    /\ ssl_verify = NoVerify
    /\ t_pc = "idle"
    /\ t_device = "empty"
    /\ t_command = "empty"
    /\ g_client = FALSE
    /\ g_cli = NoCli
    /\ installed \in BOOLEAN
    /\ t_log = <<>>
    /\ got_cli = FALSE
    /\ t_result = NoToolResult
NextT ==
    \/ \E dev, cmd \in TextKinds : TStart(dev, cmd)
    \/ TGetClient
    \/ \E d \in DownloadOutcomes : TGetCli(d)
    \/ TRun
    \/ CTokenCached
    \/ \E r \in Responses : CTokenRefresh(r)
    \/ \E lo \in ProcOutcomes : CLogin(lo)
    \/ \E eo \in ProcOutcomes : CExec(eo, <<>>)
    \/ TReturn
    \/ t_pc = "done" /\ CFinish
    \/ TFinish
SpecTool == InitT /\ [][NextT]_vars

\* A process loads its configuration from any file and environment, builds
\* its client and asks for the TLS verification setting.
InitCf ==
    /\ InitToken /\ InitQuery /\ InitConsole /\ InitSessions /\ InitTool
    /\ insecure_skip_verify = FALSE
    /\ pages = <<[n |-> 0, at |-> "none"]>>
    /\ the_file \in Files
    /\ environ \in Environs
    /\ cf_pc = "new"
    /\ config = NoConfig
    /\ client = NoClient
    /\ ssl_verify = NoVerify
NextCf == CfLoad \/ CfNewClient \/ CfGetSslVerify
SpecConfig == InitCf /\ [][NextCf]_vars

\* ------------------------------------------------------------------ claims
\* The validity rule of the cached token, written out: a non-empty token and
\* t < expiry - 60.
ValidAt(tok, expiry, t) == tok.k = "str" /\ t < expiry - 60

\* A 2xx answer carrying an access_token and a usable or absent expires_in.
Success(r) == r.kind = "ok" /\ r.exp \in {"absent", "int"}

\* C1: a caller that takes the lock at a time t < T - 60 while a non-empty token
\* is cached with expiry T returns that cached token, and no POST is issued by
\* the step, whatever calls came before and whatever the other callers do.
C1_TokenReuse ==
    [][\A c \in Callers :
        (pc[c] = "check" /\ pc'[c] # "check"
            /\ ValidAt(access_token, token_expiry, clock))
        => /\ pc'[c] = "done"
           /\ result'[c] = [exc |-> "none", tok |-> access_token]
           /\ posted'[c] = 0
           /\ posts' = posts
           /\ access_token' = access_token
           /\ token_expiry' = token_expiry]_vars

\* C1 witness: a call has returned a cached token without any POST of its own,
\* after an earlier call refreshed.
C1_Witness ==
    \E c \in Callers :
        /\ pc[c] = "done"
        /\ result[c].exc = "none"
        /\ result[c].tok.k = "str"
        /\ posted[c] = 0
        /\ posts >= 1

\* C2 as stated: a caller that arrives while a refresh is in progress never
\* issues a POST of its own and returns the token of the refresh it waited for.
C2_Original ==
    \A c \in Callers :
        arrived[c] # 0 =>
            /\ posted[c] = 0
            /\ (pc[c] = "done" => result[c].exc = "none" /\ result[c].tok = awaited[c].tok)

\* C2 amended: a caller that arrived while a refresh was in progress returns
\* that refresh's token without a POST of its own whenever the refresh
\* succeeded with a non-empty token and the caller's own check time t' is
\* before the new expiry minus 60 s.
C2_WaitersReuse ==
    \A c \in Callers :
        (/\ pc[c] = "done"
         /\ arrived[c] # 0
         /\ awaited[c].set /\ awaited[c].ok
         /\ awaited[c].tok.k = "str"
         /\ now[c] < awaited[c].expiry - 60)
        => /\ posted[c] = 0
           /\ result[c] = [exc |-> "none", tok |-> awaited[c].tok]

\* C2 witness: a caller that waited for another caller's refresh has returned
\* that refresh's token without a POST.
C2_Witness ==
    \E c \in Callers :
        /\ pc[c] = "done"
        /\ arrived[c] # 0
        /\ awaited[c].set /\ awaited[c].ok
        /\ awaited[c].tok.k = "str"
        /\ posted[c] = 0
        /\ result[c].tok = awaited[c].tok

\* C3: at most one POST to the token endpoint is in flight, and a caller that
\* is at a place of _get_access_token that reads or writes the cache (the
\* validity test, the refresh) holds the token lock.
C3_MutualExclusion ==
    /\ Cardinality({c \in Callers : pc[c] = "posting"}) <= 1
    /\ \A c \in Callers : pc[c] \in {"check", "posting"} => token_lock = c

\* C3 witness: one caller's POST is in flight while another caller waits for
\* the lock.
C3_Witness ==
    \E c, d \in Callers : c # d /\ pc[c] = "posting" /\ pc[d] = "wait"

\* C4: with no token cached or the cached token not valid the call issues one
\* POST; on a successful answer it returns the answer's access_token, caches
\* it, and sets the expiry to now + expires_in (3600 when absent).
C4_RefreshSuccess ==
    [][\A c \in Callers :
        /\ (pc[c] = "check" /\ pc'[c] # "check"
                /\ ~ValidAt(access_token, token_expiry, clock))
            => (pc'[c] = "posting" /\ posted'[c] = 1 /\ posts' = posts + 1)
        /\ (pc[c] = "posting" /\ pc'[c] = "done" /\ Success(resp'[c]))
            => LET r == resp'[c]
                   t == CASE r.tok = "str" -> [k |-> "str", id |-> posts]
                          [] r.tok = "empty" -> [k |-> "empty", id |-> 0]
                          [] OTHER -> [k |-> "none", id |-> 0]
                   e == IF r.exp = "absent" THEN 3600 ELSE r.n
               IN /\ result'[c] = [exc |-> "none", tok |-> t]
                  /\ access_token' = t
                  /\ token_expiry' = now[c] + e
                  /\ posted'[c] = 1
                  /\ posts' = posts
        /\ (pc[c] = "posting" /\ pc'[c] # "posting") => pc'[c] = "done"]_vars

\* C4 witness: a newly constructed client's first call has refreshed with an
\* answer that has no expires_in; the token is cached with expiry now + 3600.
C4_Witness ==
    \E c \in Callers :
        /\ pc[c] = "done"
        /\ posted[c] = 1
        /\ posts = 1
        /\ result[c].exc = "none"
        /\ result[c].tok.k = "str"
        /\ resp[c].exp = "absent"
        /\ access_token = result[c].tok
        /\ token_expiry = now[c] + 3600

\* C5: whatever makes the refresh fail, the call raises AuthenticationError
\* after the one POST it issued; no call issues a second POST.
C5_FailureRaisesAuth ==
    \A c \in Callers :
        /\ posted[c] <= 1
        /\ (pc[c] = "done" /\ resp[c].kind # "none" /\ ~Success(resp[c]))
            => (result[c].exc = "AuthenticationError" /\ posted[c] = 1)

\* C5 witness: a call whose POST was answered with a body that is no JSON
\* object has raised AuthenticationError after its one POST.
C5_Witness ==
    \E c \in Callers :
        /\ pc[c] = "done"
        /\ resp[c].kind = "notobject"
        /\ result[c].exc = "AuthenticationError"
        /\ posted[c] = 1

\* C6 as stated: a call that fails leaves the cached token and the cached
\* expiry as they were.
C6_Original ==
    [][\A c \in Callers :
        (pc[c] = "posting" /\ pc'[c] = "done" /\ result'[c].exc # "none")
        => (access_token' = access_token /\ token_expiry' = token_expiry)]_vars

\* All items of the collection, page after page.
RECURSIVE Concat(_, _)
Concat(p, k) == IF k = 0 THEN <<>> ELSE Concat(p, k - 1) \o PageItems(p, k)
AllItems(p) == Concat(p, Len(p))

\* Items on the first k pages.
RECURSIVE CountTo(_, _)
CountTo(p, k) == IF k = 0 THEN 0 ELSE CountTo(p, k - 1) + p[k].n

\* The first page on which the accumulated count reaches L (the last page when
\* it never does).
FirstReaching(p, L) ==
    IF \E k \in 1..Len(p) : CountTo(p, k) >= L
    THEN CHOOSE k \in 1..Len(p) :
            CountTo(p, k) >= L /\ \A j \in 1..(k - 1) : CountTo(p, j) < L
    ELSE Len(p)

\* The query got its token and ran to its end.
QueryEnded == q_pc = "done" /\ q_result.exc # "AuthenticationError"

C9_Original ==
    (QueryEnded /\ limit.given /\ limit.n >= 0 /\ q_result.exc = "none")
    => Len(q_result.items) <= limit.n

\* C10 as stated: the query does not stop before it received a page without a
\* cursor (in either place) or the limit is reached.
C10_Original ==
    (QueryEnded /\ q_result.exc = "none")
    => \/ pages[last_page].at = "none"
       \/ (limit.given /\ Len(items) >= limit.n)

\* C11: every GET a query issues, for the first page and for every
\* continuation page, carries a `limit` query parameter.
C11_Original == page_count >= 1 => "limit" \in params

\* A GET the API answered with a non-2xx status.
HttpFailed == got.kind = "http"

C13_Original ==
    /\ got.kind \in {"network", "badjson", "notobject", "baditems"} =>
          q_result.exc = "APIError"
    /\ q_pc = "done" => q_result.exc \in {"none", "AuthenticationError", "APIError"}

\* A GET that failed, whatever the way.
GetFailed == got.kind \notin {"none", "ok"}

\* C14: once the GET for a page k fails the query is over and has raised,
\* returning no item (the accumulator's pages 1..k-1 are dropped); the failed
\* page was the k-th GET, so every page up to it was asked for once, and no
\* GET follows.
C14_AllOrNothing ==
    GetFailed =>
        /\ q_pc = "done"
        /\ q_result.exc \notin {"none", "pending"}
        /\ q_result.items = <<>>
        /\ page_count = last_page

\* The second page failed after a first page that brought items.
C14_Witness ==
    /\ GetFailed
    /\ page_count = 2
    /\ items # <<>>
    /\ q_result.items = <<>>

\* The token endpoint answered the operation's POST and get_token failed.
TokenFailed(r) == r.kind # "none" /\ ~Success(r)

\* C15: when the _get_access_token call of a query or of a console command
\* fails, the operation is over with AuthenticationError as its outcome, and
\* did no I/O after the token call: the query no GET, the command neither the
\* login nor the execute process.
C15_TokenFailureStops ==
    /\ TokenFailed(q_resp) =>
          /\ q_pc = "done"
          /\ q_result.exc = "AuthenticationError"
          /\ page_count = 0
          /\ got = NoGet
    /\ TokenFailed(c_resp) =>
          /\ c_pc = "done"
          /\ c_result.exc = "AuthenticationError"
          /\ steps = <<"token">>
          /\ login_out = "none"
          /\ exec_out = "none"

\* A query and then a console command, each stopped by a failed token call.
C15_Witness ==
    /\ TokenFailed(q_resp)
    /\ TokenFailed(c_resp)
    /\ q_pc = "done"
    /\ c_pc = "done"

\* C16: once the login process exited nonzero, the execute process is never
\* started, and run_console_command has raised FlightControlError "Failed to
\* login to flightctl console" with the login process's captured stderr.
C16_LoginFailureStops ==
    login_out = "nonzero" =>
        /\ c_pc = "done"
        /\ exec_out = "none"
        /\ "exec" \notin {steps[i] : i \in 1..Len(steps)}
        /\ c_result.exc = "FlightControlError"
        /\ c_result.msg = "Failed to login to flightctl console"
        /\ c_result.stderr = "login"

\* A login that exited nonzero after the token was obtained.
C16_Witness ==
    /\ login_out = "nonzero"
    /\ steps = <<"token", "login">>
    /\ Truthy(c_token)

\* C17: an invocation's I/O is a prefix of token, login, execute, each step
\* run at most once; the execute process is started only after the login
\* process of the invocation exited 0; and an invocation that failed is over.
C17_StateMachine ==
    /\ steps \in {<<>>, <<"token">>, <<"token", "login">>, <<"token", "login", "exec">>}
    /\ (c_pc = "exec" \/ exec_out # "none") => login_out = "exit0"
    /\ c_pc = "login" => login_out = "none"
    /\ c_result.exc \notin {"pending", "none"} => c_pc = "done"
    /\ c_result.exc = "none" => c_pc = "done" /\ login_out = "exit0" /\ exec_out = "exit0"

\* An invocation that logged in and whose execute step then failed.
C17_Witness ==
    /\ steps = <<"token", "login", "exec">>
    /\ login_out = "exit0"
    /\ exec_out = "nonzero"
    /\ c_pc = "done"

\* C18: an invocation whose device name or command is empty or blank ends
\* with the "cannot be empty" failure, having requested no token and started
\* no process.
C18_Original ==
    (c_pc # "idle" /\ (Blank(device_name) \/ Blank(command))) =>
        /\ c_pc = "done"
        /\ c_result.msg \in {"Device name cannot be empty", "Command cannot be empty"}
        /\ steps = <<>>
        /\ c_resp = NoResponse

\* C19: an invocation goes past the executable check when the executable is
\* found on PATH or at cli_path; when it is found in neither way the
\* invocation ends with a FlightControlError, no token requested and no
\* process started.
C19_Original ==
    /\ (c_pc # "idle" /\ (on_path \/ path_ok)) =>
          c_result.msg # "flightctl CLI not found"
    /\ (c_pc # "idle" /\ ~on_path /\ ~path_ok) =>
          /\ c_pc = "done"
          /\ c_result.exc = "FlightControlError"
          /\ steps = <<>>
          /\ c_resp = NoResponse

\* C20: a login or execute process that exited nonzero or could not be
\* started makes run_console_command raise FlightControlError; nothing else
\* comes out of a step that failed.
C20_Original ==
    (login_out \in {"nonzero", "oserror"} \/ exec_out \in {"nonzero", "oserror"}) =>
        c_result.exc = "FlightControlError"

\* t is s without its leading and trailing whitespace: t neither starts nor
\* ends with whitespace, and s is t between two runs of whitespace.
IsTrimOf(t, s) ==
    /\ t # <<>> => (t[1] \notin Whitespace /\ t[Len(t)] \notin Whitespace)
    /\ \E i \in 0..Len(s) :
          /\ i + Len(t) <= Len(s)
          /\ SubSeq(s, i + 1, i + Len(t)) = t
          /\ \A j \in (1..i) \cup ((i + Len(t) + 1)..Len(s)) : s[j] \in Whitespace

\* C21: when the login and the execute process both exited 0,
\* run_console_command returned the execute process's standard output without
\* its leading and trailing whitespace; when the execute process exited nonzero
\* it raised FlightControlError with that process's captured stderr and the
\* device name in its message.
C21_StdoutTrimmed ==
    /\ (login_out = "exit0" /\ exec_out = "exit0") =>
          /\ c_result.exc = "none"
          /\ IsTrimOf(c_result.out, stdout)
    /\ exec_out = "nonzero" =>
          /\ c_result.exc = "FlightControlError"
          /\ c_result.stderr = "exec"
          /\ c_result.device = device_name

\* Output with whitespace on both sides, returned without it.
C21_Witness ==
    /\ login_out = "exit0"
    /\ exec_out = "exit0"
    /\ stdout = <<" ", "a", " ">>
    /\ c_result.out = <<"a">>

\* C22: the login process is started as `<cli> login [--insecure-skip-tls-verify]
\* --token <token>` and the execute process as `<cli> console device/<name>
\* [--insecure-skip-tls-verify] -- <words of the command>`, the flag there in
\* both exactly when insecure_skip_verify is configured.
C22_Original ==
    /\ login_argv # <<>> =>
          login_argv =
              << <<"cli_path">>, <<"login">> >>
              \o (IF insecure_skip_verify THEN << <<"--insecure-skip-tls-verify">> >> ELSE <<>>)
              \o << <<"--token">>, <<"<token>">> >>
    /\ exec_argv # <<>> =>
          exec_argv =
              << <<"cli_path">>, <<"console">>, <<"device/">> \o Text(device_name) >>
              \o (IF insecure_skip_verify THEN << <<"--insecure-skip-tls-verify">> >> ELSE <<>>)
              \o << <<"--">> >>
              \o Split(Text(command))

\* The invocation ended with one of the two "cannot be empty" failures.
ValidationFailed ==
    /\ c_pc = "done"
    /\ c_result.msg \in {"Device name cannot be empty", "Command cannot be empty"}

\* C23: a validation failure is raised with a class that is neither the one
\* console failures are raised with nor AuthenticationError nor APIError, and
\* an invocation whose token call, login or execute step failed did not return.
C23_Original ==
    /\ ValidationFailed =>
          c_result.exc \notin {LoginExcept("nonzero").exc, ExecExcept("nonzero", "").exc,
                               "AuthenticationError", "APIError"}
    /\ (TokenFailed(c_resp) \/ login_out \in {"nonzero", "oserror"}
            \/ exec_out \in {"nonzero", "oserror"}) =>
          c_result.exc # "none"

\* C24: no HTTP call waits for its answer forever: a caller whose POST is in
\* flight gets past it, and so does a caller queued on the token lock behind it.
C24_Original ==
    \A c \in Callers :
        /\ (pc[c] = "posting") ~> (pc[c] # "posting")
        /\ (pc[c] = "wait") ~> (pc[c] # "wait")

\* The settings a client cannot be built without that the configuration lacks.
Missing(cf) ==
    {n \in {"API_BASE_URL", "OIDC_TOKEN_URL", "REFRESH_TOKEN"} :
        \/ n = "API_BASE_URL" /\ ~IsSet(cf.api_base_url)
        \/ n = "OIDC_TOKEN_URL" /\ ~IsSet(cf.oidc_token_url)
        \/ n = "REFRESH_TOKEN" /\ ~IsSet(cf.refresh_token)}
Constructed == cf_pc \in {"client", "verify"}

\* C25: constructing a client from a configuration that lacks the API base
\* URL, the OIDC token URL or the refresh token raises a FlightControlError
\* whose message names a missing setting and creates no client; a client that
\* is created starts with no cached token and expiry 0.
C25_RequiredSettings ==
    Constructed =>
        /\ Missing(config) # {} =>
              /\ ~client.created
              /\ client.exc = "FlightControlError"
              /\ \E n \in Missing(config) : client.msg = n \o " not configured"
              /\ client.access_token = Unassigned
        /\ Missing(config) = {} =>
              /\ client.created
              /\ client.exc = "none"
              /\ client.access_token = None
              /\ client.token_expiry = 0
\* Only the refresh token is missing and the constructor raised.
C25_Witness ==
    /\ Constructed
    /\ Missing(config) = {"REFRESH_TOKEN"}
    /\ ~client.created
    /\ client.msg = "REFRESH_TOKEN not configured"

\* C26: get_ssl_verify returns False whenever insecure_skip_verify is set,
\* a CA certificate path or not; otherwise the CA certificate path when one is
\* set; otherwise True.
C26_SslVerify ==
    cf_pc = "verify" =>
        /\ config.insecure_skip_verify => ssl_verify.kind = "False"
        /\ ~config.insecure_skip_verify /\ IsSet(config.ca_cert_path) =>
              ssl_verify.kind = "path" /\ ssl_verify.path = config.ca_cert_path
        /\ ~config.insecure_skip_verify /\ ~IsSet(config.ca_cert_path) =>
              ssl_verify.kind = "True"
\* Skip-verify and a CA certificate path are both set; the answer is False.
C26_Witness ==
    /\ cf_pc = "verify"
    /\ config.insecure_skip_verify
    /\ IsSet(config.ca_cert_path)
    /\ ssl_verify.kind = "False"

\* A setting came from where the precedence says: the environment variable e
\* when it is non-empty, else the file when the file block read the key's
\* line (read) and has the key or puts "" in its place, else the default d.
Precedence(v, e, read, f, d) ==
    IF IsSet(e) THEN v.src = "env" /\ IsSet(v)
    ELSE IF read /\ f.kind # "unset" THEN v.src = "file" /\ IsSet(v)
    ELSE IF read THEN v = d \/ (v.kind = "empty" /\ ~IsSet(d))
    ELSE v = d
Loaded == cf_pc # "new"

\* C27: for each of API_BASE_URL, OIDC_TOKEN_URL, OIDC_CLIENT_ID,
\* REFRESH_TOKEN and INSECURE_SKIP_VERIFY a non-empty environment variable
\* overrides the value read from client.yaml, which overrides the default:
\* client id "flightctl", skip-verify false, the others unset.
C27_Precedence ==
    Loaded =>
        /\ Precedence(config.api_base_url, environ.API_BASE_URL,
                      ReadsService(the_file), the_file.server, Absent)
        /\ Precedence(config.oidc_token_url, environ.OIDC_TOKEN_URL,
                      ReadsAuthentication(the_file), the_file.oidc_server, Absent)
        /\ Precedence(config.client_id, environ.OIDC_CLIENT_ID,
                      ReadsAuthentication(the_file), the_file.client_id, DefaultClientId)
        /\ Precedence(config.refresh_token, environ.REFRESH_TOKEN,
                      ReadsAuthentication(the_file), the_file.refresh_token, Absent)
        /\ config.insecure_skip_verify =
              IF IsSet(environ.INSECURE_SKIP_VERIFY)
              THEN environ.INSECURE_SKIP_VERIFY.kind = "true"
              ELSE IF ReadsService(the_file)
                      /\ the_file.insecureSkipVerify.kind # "unset"
              THEN the_file.insecureSkipVerify.kind = "true"
              ELSE FALSE
\* All three levels in one load: the environment wins over the file for the
\* API URL and for skip-verify, the file wins over the default for the
\* refresh token, and the client id keeps its default.
C27_Witness ==
    /\ Loaded
    /\ IsSet(environ.API_BASE_URL) /\ IsSet(the_file.server)
    /\ config.api_base_url.src = "env"
    /\ environ.INSECURE_SKIP_VERIFY.kind = "false"
    /\ the_file.insecureSkipVerify.kind = "true"
    /\ ~config.insecure_skip_verify
    /\ ~IsSet(environ.REFRESH_TOKEN) /\ config.refresh_token.src = "file"
    /\ config.client_id = DefaultClientId

\* C28: the page requests of a query come one after the other: the first has
\* no `continue` parameter and finds no items gathered; each later one has as
\* its `continue` the cursor of the response just before it and is made with
\* that response's items already appended; and each has `labelSelector`,
\* `fieldSelector` exactly when that selector is a non-empty string.
C28_Sequential ==
    /\ Len(log) = page_count
    /\ \A i \in 1..Len(log) :
          /\ ("continue" \in log[i].params) <=> (i > 1)
          /\ i = 1 => log[i].continue = 0 /\ log[i].had = 0
          /\ i > 1 =>
                /\ log[i - 1].cursor # 0
                /\ log[i].continue = log[i - 1].cursor
                /\ log[i].had = log[i - 1].count
          /\ ("labelSelector" \in log[i].params) <=>
                (label_selector \notin {"unset", "empty"})
          /\ ("fieldSelector" \in log[i].params) <=>
                (field_selector \notin {"unset", "empty"})
\* A second page was asked for with the first page's cursor, after its item
\* was appended, with the label selector given and the field selector "".
C28_Witness ==
    /\ Len(log) = 2
    /\ label_selector = "given" /\ field_selector = "empty"
    /\ log[1].params = {"labelSelector"}
    /\ log[2].params = {"labelSelector", "continue"}
    /\ log[2].continue = log[1].cursor
    /\ log[1].count = 1 /\ log[2].had = 1

\* C29: a query has made no _get_access_token call but its one before the
\* first page request, and every page request has the bearer token of that
\* call, whether or not the cached token was still valid when the request was
\* made and however the pages were answered.
C29_OneToken ==
    /\ q_pc = "token" => token_calls = 0 /\ log = <<>>
    /\ q_pc \in {"fetch", "done"} => token_calls = 1
    /\ \A i \in 1..Len(log) : log[i].bearer = headers /\ log[i].bearer = log[1].bearer
\* The token was valid at the first page request and no longer at the second,
\* which was answered 401: the query ended with that one token call.
C29_Witness ==
    /\ Len(log) = 2
    /\ log[1].valid /\ ~log[2].valid
    /\ got.kind = "http" /\ got.status = 401
    /\ token_calls = 1
    /\ log[2].bearer = log[1].bearer
    /\ q_pc = "done"

\* C30: a caller that is not inside `with self._token_lock` does not hold the
\* lock, whichever way it left; and while the latest refresh is a failed one,
\* a caller that passes the validity test goes on to a refresh POST of its own
\* and does not return a cached token.
C30_Original ==
    [][/\ \A c \in Callers : pc[c] \in {"idle", "wait", "done"} => token_lock # c
       /\ last_failed => \A c \in Callers : ~(pc[c] = "check" /\ pc'[c] = "done")]_vars

\* C31: every call that returns hands back a non-empty token string; a 2xx
\* answer whose access_token is null or "" makes the call raise
\* AuthenticationError, and the cached token is never such a value.
C31_Original ==
    /\ \A c \in Callers :
          /\ (pc[c] = "done" /\ result[c].exc = "none") => result[c].tok.k = "str"
          /\ (pc[c] = "done" /\ resp[c].kind = "ok" /\ resp[c].tok \in {"null", "empty"})
                => result[c].exc = "AuthenticationError"
    /\ access_token \in {None} \cup {Tok(n) : n \in 1..posts}

\* C32: with every GET answered, a query that is in its loop comes to return
\* or raise (every cursor chain of the backend ends); and with a positive
\* limit it has returned once it holds that many items, a cursor on the last
\* page read or not.
C32_Terminates ==
    /\ [](limit.given /\ limit.n > 0 /\ Len(items) >= limit.n
            => q_pc = "done" /\ q_result.exc = "none")
    /\ (q_pc = "fetch") ~> (q_pc = "done" /\ q_result.exc # "pending")
\* A query with limit 1 returned after one request although the page it read
\* carried a cursor to a second page.
C32_Witness ==
    /\ q_pc = "done"
    /\ q_result.exc = "none"
    /\ limit.given /\ limit.n = 1
    /\ page_count = 1
    /\ Len(pages) = 2 /\ pages[1].at = "top" /\ pages[1].n >= 1

\* C33: from a thread's successful login to the end of its execute step the
\* CLI's stored login stays that thread's own, no other thread's login having
\* run in between; an execute step that ran did so under its thread's own login.
C33_Original ==
    \A i \in Callers :
        /\ k_pc[i] = "exec" => session = i
        /\ k_ran[i] \in {0, i}

\* C34: an instance that get_cli has returned to a call is one whose
\* download() came to its end without raising, whatever calls there were before.
C34_Original == got_cli => g_cli.downloaded

\* C35: a tool call given an empty or whitespace-only device_name or command
\* starts no process and makes no network request: neither the download's
\* curl and tar nor the token request, the login or the execute step.
C35_Original ==
    (t_pc # "idle" /\ (Blank(t_device) \/ Blank(t_command)))
        => t_log = <<>> /\ steps = <<>>
====
